---- MODULE Spec2Model ----
(***************************************************************************)
(* Ledger posting engine of the Mahad Group accounting suite               *)
(* (core/utils.py, core/views.py, core/models.py).                         *)
(*                                                                         *)
(* Money is an integer number of 1/10000 currency units, the precision     *)
(* convert_currency quantizes to; an FX rate is an integer number of       *)
(* 1/10000.  Dates are day numbers; NoDate is a NULL date.                 *)
(*                                                                         *)
(* The utilities read attributes the models of core/models.py do not       *)
(* declare (company.chart_of_accounts, cost.date_incurred, FxRate,         *)
(* receipt.bank_account).  They are modelled by the way utils.py uses      *)
(* them: chart is whether the company's chart of accounts is configured    *)
(* (an attribute access on it fails otherwise), date_incurred is the date  *)
(* of the cost, fxRates is the table the FxRate queries read.              *)
(***************************************************************************)
EXTENDS Integers, Sequences, FiniteSets, TLC

\* ---------------------------------------------------------------- bounds
NumCandidates == 2
MaxCosts == 2
MaxJournals == 3
MaxInvoices == 1
MaxReceipts == 1
MaxPayments == 1
MaxDay == 2
MaxPosted == 2

\* ------------------------------------------------------------- constants
Tol == 100
Scale == 10000
UnitRate == 10000
NoDate == 0
NoRate == 0
NoInvoice == 0

STAGE_CHOICES ==
    {"SOURCING", "SCREENING", "DOCUMENTATION", "VISA", "MEDICAL", "TICKET",
     "DEPLOYED", "INVOICED"}

CURRENCY_CHOICES == {"USD", "EUR"}

\* The company and the job order of the model (one of each).
BaseCurrency == "USD"
AgreedFee == 500 * Scale

\* The inputs the requests are drawn from.
CandIds == 1..NumCandidates
StageInputs == {"DEPLOYED", "INVOICED", "ARCHIVED"}
CostAmounts == {100 * Scale}
ReceiptAmounts == {500 * Scale, 500 * Scale + Tol, 600 * Scale}
PaymentAmounts == {100 * Scale}
FxRow(from, to, date, rate) ==
    [from_currency |-> from, to_currency |-> to, rate_date |-> date, rate |-> rate]
FxUniverse == { FxRow("EUR", "USD", 1, 11000) }

VARIABLES
    company,      \* the Company row: [invoice_counter]
    fxRates,      \* the FxRate table
    chart,        \* the company has its chart of accounts configured
    jobCurrency,  \* job_order.currency
    today,        \* timezone.now().date()
    candidates,   \* Candidate rows: id -> [current_stage, deployed_date]
    costs,        \* CandidateCost rows, in creation order
    invoices,     \* Invoice rows, in creation order
    receipts,     \* Receipt rows
    payments,     \* Payment rows
    journals,     \* Journal rows with their JournalLine rows
    req,          \* the requests in flight, one per worker
    last          \* the call that completed last and its outcome

\* a Company row as the model creates it: invoice_counter defaults to 1
NewCompany == [invoice_counter |-> 1]

vars == <<company, fxRates, chart, jobCurrency, today, candidates, costs, invoices, receipts,
          payments, journals, req, last>>

\* ---------------------------------------------------------------- helpers
Abs(x) == IF x < 0 THEN -x ELSE x

\* Decimal.quantize with ROUND_HALF_EVEN: n/d rounded to an integer.
RoundHalfEven(n, d) ==
    LET q == n \div d
        r == n % d
    IN  IF 2 * r < d THEN q
        ELSE IF 2 * r > d THEN q + 1
        ELSE IF q % 2 = 0 THEN q ELSE q + 1

RECURSIVE SumDebit(_)
SumDebit(lines) ==
    IF lines = <<>> THEN 0 ELSE Head(lines).debit + SumDebit(Tail(lines))

RECURSIVE SumCredit(_)
SumCredit(lines) ==
    IF lines = <<>> THEN 0 ELSE Head(lines).credit + SumCredit(Tail(lines))

Line(account, debit, credit) ==
    [account |-> account, debit |-> debit, credit |-> credit]

\* The outcome of a call: the error it raised ("none" if it returned) and
\* the Journal table it leaves.
Outcome(err, js) == [err |-> err, journals |-> js]

\* ------------------------------------------------------ currency converter
Max(S) == CHOOSE x \in S : \A y \in S : y <= x

get_fx_rate(from_currency, to_currency, date) ==
    LET pair == {r \in fxRates : r.from_currency = from_currency
                                 /\ r.to_currency = to_currency}
        exact == {r \in pair : r.rate_date = date}
        latest == Max({r.rate_date : r \in pair})
    IN  IF from_currency = to_currency THEN UnitRate
        ELSE IF exact # {} THEN (CHOOSE r \in exact : TRUE).rate
        ELSE IF pair # {}
             THEN (CHOOSE r \in pair : r.rate_date = latest).rate
        ELSE NoRate

\* convert_currency raises when get_fx_rate raises: HasRate is the guard.
HasRate(from_curr, to_curr, date) == get_fx_rate(from_curr, to_curr, date) # NoRate

\* (amount * rate).quantize(Decimal('0.0001')): the product of two numbers of
\* 1/10000, rounded half-even to 1/10000.  The amount is split into its whole
\* units and its fraction so that no intermediate product leaves 32 bits.
MulQuantize(amount, rate) ==
    LET whole == (amount \div Scale) * rate
        frac == (amount % Scale) * rate
    IN  whole + RoundHalfEven(frac + (whole % 2) * Scale, Scale) - (whole % 2)

convert_currency(amount, from_curr, to_curr, date) ==
    MulQuantize(amount, get_fx_rate(from_curr, to_curr, date))

\* ------------------------------------------------------------ ledger poster
\* post_journal comparing the signed difference with the tolerance
post_journal_signed(js, kind, ref, lines, failAt) ==
    LET total_debit == SumDebit(lines)
        total_credit == SumCredit(lines)
        n == Cardinality({j \in js : j.kind = kind /\ j.ref = ref}) + 1
        row(k) == [kind |-> kind, ref |-> ref, n |-> n, nInput |-> Len(lines),
                   lines |-> SubSeq(lines, 1, k)]
    IN  IF total_debit - total_credit > Tol
        THEN [err |-> "unbalanced", journals |-> js]
        ELSE IF failAt = 1 THEN [err |-> "db", journals |-> js]
        ELSE IF failAt >= 2 /\ failAt <= Len(lines) + 1
             THEN [err |-> "db", journals |-> js \cup {row(failAt - 2)}]
        ELSE [err |-> "none", journals |-> js \cup {row(Len(lines))}]

\* A Journal row with its JournalLine rows.  kind and ref name the business
\* event the description of the journal names, n counts the journals of that
\* event, nInput is the number of lines the caller passed.
\* failAt is the write that the database rejects: 0 none, 1 the INSERT of
\* the Journal row, i + 1 the INSERT of the i-th JournalLine row.
post_journal(js, kind, ref, lines, failAt) ==
    LET total_debit == SumDebit(lines)
        total_credit == SumCredit(lines)
        n == Cardinality({j \in js : j.kind = kind /\ j.ref = ref}) + 1
        row(k) == [kind |-> kind, ref |-> ref, n |-> n, nInput |-> Len(lines),
                   lines |-> SubSeq(lines, 1, k)]
    IN  IF Abs(total_debit - total_credit) > Tol
        THEN Outcome("unbalanced", js)
        ELSE IF failAt = 1 THEN Outcome("db", js)
        ELSE IF failAt >= 2 /\ failAt <= Len(lines) + 1
             THEN Outcome("db", js \cup {row(failAt - 2)})
        ELSE Outcome("none", js \cup {row(Len(lines))})

\* @transaction.atomic around a call that started from the table js0.
atomic(js0, out) ==
    IF out.err = "none" THEN out ELSE Outcome(out.err, js0)

\* ------------------------------------------------- business event translators
RECURSIVE CostsRated(_, _)
\* every cost of candidate c, from the i-th on, has an FX rate to the base currency
CostsRated(c, i) ==
    IF i > Len(costs) THEN TRUE
    ELSE /\ (costs[i].candidate = c =>
                HasRate(costs[i].currency, BaseCurrency, costs[i].date))
         /\ CostsRated(c, i + 1)

RECURSIVE TotalWipAll(_, _)
\* the loop over CandidateCost.objects.all() instead of candidate.costs.all()
TotalWipAll(c, i) ==
    IF i > Len(costs) THEN 0
    ELSE convert_currency(costs[i].amount, costs[i].currency, BaseCurrency,
                          costs[i].date) + TotalWipAll(c, i + 1)

RECURSIVE TotalWip(_, _)
\* the loop of post_deployment_journal over candidate.costs.all()
TotalWip(c, i) ==
    IF i > Len(costs) THEN 0
    ELSE (IF costs[i].candidate = c
          THEN convert_currency(costs[i].amount, costs[i].currency,
                                BaseCurrency, costs[i].date)
          ELSE 0) + TotalWip(c, i + 1)

post_wip_cost_journal(js, cost, failAt) ==
    LET local_amount == convert_currency(cost.amount, cost.currency,
                                         BaseCurrency, cost.date)
        lines == << Line("WIP", local_amount, 0), Line("AP", 0, local_amount) >>
    IN  IF ~HasRate(cost.currency, BaseCurrency, cost.date) THEN Outcome("fx", js)
        ELSE IF ~chart THEN Outcome("chart", js)
        ELSE atomic(js, post_journal(js, "COST", cost.id, lines, failAt))

\* candidate is the object in the caller's memory: [id, current_stage, deployed_date]
post_deployment_journal(js, candidate, failAt) ==
    LET total_wip == TotalWip(candidate.id, 1)
        revenue_local == convert_currency(AgreedFee, jobCurrency, BaseCurrency, today)
        lines == << Line("COGS", total_wip, 0), Line("WIP", 0, total_wip),
                    Line("REVENUE", 0, revenue_local), Line("AR", revenue_local, 0) >>
    IN  IF candidate.current_stage # "DEPLOYED" THEN Outcome("none", js)
        ELSE IF ~CostsRated(candidate.id, 1) THEN Outcome("fx", js)
        ELSE IF ~HasRate(jobCurrency, BaseCurrency, today) THEN Outcome("fx", js)
        ELSE IF ~chart THEN Outcome("chart", js)
        ELSE atomic(js, post_journal(js, "DEPLOY", candidate.id, lines, failAt))

\* post_invoice_journal appending the Tax Payable line whatever the tax is
post_invoice_journal_taxed(js, invoice, failAt) ==
    LET total_local == convert_currency(invoice.total_amount, invoice.currency,
                                        BaseCurrency, today)
        tax_local == convert_currency(invoice.tax_amount, invoice.currency,
                                      BaseCurrency, today)
        net_local == total_local - tax_local
        lines == << Line("AR", total_local, 0), Line("REVENUE", 0, net_local),
                    Line("TAX", 0, tax_local) >>
    IN  IF ~HasRate(invoice.currency, BaseCurrency, today) THEN Outcome("fx", js)
        ELSE IF ~chart THEN Outcome("chart", js)
        ELSE atomic(js, post_journal(js, "INVOICE", invoice.id, lines, failAt))

post_invoice_journal(js, invoice, failAt) ==
    LET total_local == convert_currency(invoice.total_amount, invoice.currency,
                                        BaseCurrency, today)
        tax_local == convert_currency(invoice.tax_amount, invoice.currency,
                                      BaseCurrency, today)
        net_local == total_local - tax_local
        lines == << Line("AR", total_local, 0), Line("REVENUE", 0, net_local) >>
                 \o (IF tax_local > 0 THEN << Line("TAX", 0, tax_local) >> ELSE << >>)
    IN  IF ~HasRate(invoice.currency, BaseCurrency, today) THEN Outcome("fx", js)
        ELSE IF ~chart THEN Outcome("chart", js)
        ELSE atomic(js, post_journal(js, "INVOICE", invoice.id, lines, failAt))

\* the lines of post_receipt_journal with the plug on the opposite side
receipt_lines_swapped(receipt) ==
    LET amount_local == convert_currency(receipt.amount, receipt.currency,
                                         BaseCurrency, today)
        inv == invoices[receipt.invoice]
        original_local == convert_currency(inv.total_amount, inv.currency,
                                           BaseCurrency, today)
        fx_gain_loss == amount_local - original_local
        plug == IF Abs(fx_gain_loss) > Tol
                THEN << Line(IF fx_gain_loss > 0 THEN "FX_GAIN" ELSE "FX_LOSS",
                             IF fx_gain_loss < 0 THEN Abs(fx_gain_loss) ELSE 0,
                             IF fx_gain_loss > 0 THEN fx_gain_loss ELSE 0) >>
                ELSE << >>
    IN  << Line("BANK", amount_local, 0), Line("AR", 0, original_local) >> \o plug

\* the lines post_receipt_journal builds for a receipt of an invoice
receipt_lines(receipt) ==
    LET amount_local == convert_currency(receipt.amount, receipt.currency,
                                         BaseCurrency, today)
        inv == invoices[receipt.invoice]
        original_local == convert_currency(inv.total_amount, inv.currency,
                                           BaseCurrency, today)
        fx_gain_loss == amount_local - original_local
        plug == IF Abs(fx_gain_loss) > Tol
                THEN << Line(IF fx_gain_loss > 0 THEN "FX_GAIN" ELSE "FX_LOSS",
                             IF fx_gain_loss > 0 THEN fx_gain_loss ELSE 0,
                             IF fx_gain_loss < 0 THEN Abs(fx_gain_loss) ELSE 0) >>
                ELSE << >>
    IN  << Line("BANK", amount_local, 0), Line("AR", 0, original_local) >> \o plug

post_receipt_journal(js, receipt, failAt) ==
    LET inv == invoices[receipt.invoice]
        lines == receipt_lines(receipt)
    IN  IF ~HasRate(receipt.currency, BaseCurrency, today) THEN Outcome("fx", js)
        ELSE IF receipt.invoice = NoInvoice THEN Outcome("attr", js)
        ELSE IF ~HasRate(inv.currency, BaseCurrency, today) THEN Outcome("fx", js)
        ELSE IF ~chart THEN Outcome("chart", js)
        ELSE post_journal(js, "RECEIPT", receipt.id, lines, failAt)

\* post_payment_journal falling back to the unconverted amount without a rate
post_payment_journal_lenient(js, payment, failAt) ==
    LET amount_local == IF HasRate(payment.currency, BaseCurrency, today)
                        THEN convert_currency(payment.amount, payment.currency,
                                              BaseCurrency, today)
                        ELSE payment.amount
        lines == << Line("AP", amount_local, 0), Line("BANK", 0, amount_local) >>
    IN  IF ~chart THEN Outcome("chart", js)
        ELSE post_journal(js, "PAYMENT", payment.id, lines, failAt)

post_payment_journal(js, payment, failAt) ==
    LET amount_local == convert_currency(payment.amount, payment.currency,
                                         BaseCurrency, today)
        lines == << Line("AP", amount_local, 0), Line("BANK", 0, amount_local) >>
    IN  IF ~HasRate(payment.currency, BaseCurrency, today) THEN Outcome("fx", js)
        ELSE IF ~chart THEN Outcome("chart", js)
        ELSE post_journal(js, "PAYMENT", payment.id, lines, failAt)


\* ------------------------------------------------------------------- state
Procs == {1, 2}
IdleReq == [pc |-> "idle", kind |-> "none", ids |-> {}, snap |-> << >>]

\* the record of the call that completed last: the operation, the error it
\* raised, the row or count it returned, and its arguments
LastRec(op, err, ref, ids, stage) ==
    [op |-> op, err |-> err, ref |-> ref, ids |-> ids, stage |-> stage,
     lines |-> << >>]

NewCandidates ==
    [c \in CandIds |-> [current_stage |-> "SOURCING", deployed_date |-> NoDate]]

Init ==
    /\ company = NewCompany
    /\ fxRates = {}
    /\ chart \in BOOLEAN
    /\ jobCurrency \in CURRENCY_CHOICES
    /\ today = 1
    /\ candidates = NewCandidates
    /\ costs = << >>
    /\ invoices = << >>
    /\ receipts = << >>
    /\ payments = << >>
    /\ journals = {}
    /\ req = [p \in Procs |-> IdleReq]
    /\ last = LastRec("init", "none", 0, {}, "")

\* A rate row is written to the FxRate table (one row per pair and date).
AddFxRate(r) ==
    /\ r \notin fxRates
    /\ \A q \in fxRates : ~(q.from_currency = r.from_currency
                            /\ q.to_currency = r.to_currency
                            /\ q.rate_date = r.rate_date)
    /\ fxRates' = fxRates \cup {r}
    /\ UNCHANGED <<company, chart, jobCurrency, today, candidates, costs, invoices,
                   receipts, payments, journals, req, last>>

\* The clock of timezone.now() moves to the next day.
Tick ==
    /\ today < MaxDay
    /\ today' = today + 1
    /\ UNCHANGED <<company, fxRates, chart, jobCurrency, candidates, costs, invoices,
                   receipts, payments, journals, req, last>>

\* ------------------------------------------------------- candidate objects
\* the Candidate object a query builds from the row c of the table cands
LoadCandidate(cands, c) ==
    [id |-> c, current_stage |-> cands[c].current_stage,
     deployed_date |-> cands[c].deployed_date]

\* deployed_date stamped on every move to DEPLOYED
MoveObjRestamped(obj, new_stage) ==
    [obj EXCEPT !.current_stage = new_stage,
                !.deployed_date = IF new_stage = "DEPLOYED" THEN today ELSE @]

\* candidate.current_stage = new_stage; deployed_date set if not set yet
MoveObj(obj, new_stage) ==
    [obj EXCEPT !.current_stage = new_stage,
                !.deployed_date = IF new_stage = "DEPLOYED" /\ @ = NoDate
                                  THEN today ELSE @]

\* candidate.save(): every field of the object is written to the row
SaveCandidate(cands, obj) ==
    [cands EXCEPT ![obj.id] = [current_stage |-> obj.current_stage,
                               deployed_date |-> obj.deployed_date]]

\* the guard of the deployment posting in both move-stage entry points
ShouldPostDeployment(old_stage, new_stage) ==
    new_stage = "DEPLOYED" /\ old_stage # "DEPLOYED"

\* ---------------------------------------------------------- request handlers
NewCost(id, c, amount, currency, reimbursable) ==
    [id |-> id, candidate |-> c, amount |-> amount, currency |-> currency,
     date |-> today, reimbursable |-> reimbursable]

\* POST /api/candidates/{id}/add-cost/
candidate_add_cost(c, amount, currency, reimbursable) ==
    /\ Len(costs) < MaxCosts
    /\ costs' = Append(costs, NewCost(Len(costs) + 1, c, amount, currency, reimbursable))
    /\ last' = LastRec("candidate_add_cost", "none", Len(costs) + 1, {c}, "")
    /\ UNCHANGED <<company, fxRates, chart, jobCurrency, today, candidates, invoices,
                   receipts, payments, journals, req>>

\* POST /api/candidates/{id}/move_stage/
candidate_move_stage(c, new_stage, failAt) ==
    /\ Cardinality(journals) < MaxJournals
    /\ IF new_stage \notin STAGE_CHOICES
       THEN /\ last' = LastRec("candidate_move_stage", "invalid", c, {c}, new_stage)
            /\ UNCHANGED <<candidates, journals>>
       ELSE LET loaded == LoadCandidate(candidates, c)
                old_stage == loaded.current_stage
                obj == MoveObj(loaded, new_stage)
                out == IF ShouldPostDeployment(old_stage, new_stage)
                       THEN post_deployment_journal(journals, obj, failAt)
                       ELSE Outcome("none", journals)
            IN  /\ candidates' = SaveCandidate(candidates, obj)
                /\ journals' = out.journals
                /\ last' = LastRec("candidate_move_stage", out.err, c, {c}, new_stage)
    /\ UNCHANGED <<company, fxRates, chart, jobCurrency, today, costs, invoices,
                   receipts, payments, req>>

RECURSIVE SeqOf(_)
\* the ids of a request in the order they are processed
SeqOf(S) ==
    IF S = {} THEN << >>
    ELSE LET m == CHOOSE x \in S : \A y \in S : x <= y
         IN  << m >> \o SeqOf(S \ {m})

RECURSIVE Reimbursable(_, _)
\* sum of the amounts of the reimbursable costs of the candidates in cs
Reimbursable(cs, i) ==
    IF i > Len(costs) THEN 0
    ELSE (IF costs[i].candidate \in cs /\ costs[i].reimbursable
          THEN costs[i].amount ELSE 0) + Reimbursable(cs, i + 1)

\* POST /api/invoices/generate/ (the whole view is @transaction.atomic)
\* Company.next_invoice_number(): the number is the counter of the object in
\* hand; the object's counter plus one is written to the row
next_invoice_number(obj) == [obj EXCEPT !.invoice_counter = @ + 1]

invoice_generate(ids, failAt) ==
    LET deployed == {c \in ids \cap CandIds : candidates[c].current_stage = "DEPLOYED"}
        invoice == [id |-> Len(invoices) + 1,
                    total_amount |-> Cardinality(deployed) * AgreedFee
                                     + Reimbursable(deployed, 1),
                    invoice_number |-> company.invoice_counter,
                    tax_amount |-> 0,
                    currency |-> jobCurrency,
                    cands |-> deployed]
        out == post_invoice_journal(journals, invoice, failAt)
    IN  /\ Len(invoices) < MaxInvoices
        /\ Cardinality(journals) < MaxJournals
        /\ IF deployed = {}
           THEN /\ last' = LastRec("invoice_generate", "nodeployed", 0, ids, "")
                /\ UNCHANGED <<company, invoices, journals>>
           ELSE /\ company' = IF out.err = "none" THEN next_invoice_number(company)
                              ELSE company
                /\ invoices' = IF out.err = "none" THEN Append(invoices, invoice)
                               ELSE invoices
                /\ journals' = atomic(journals, out).journals
                /\ last' = LastRec("invoice_generate", out.err, invoice.id, ids, "")
        /\ UNCHANGED <<fxRates, chart, jobCurrency, today, candidates, costs,
                       receipts, payments, req>>

\* POST receipts: the Receipt row is saved, then its journal is posted
receipt_create(inv, amount, currency, failAt) ==
    LET receipt == [id |-> Len(receipts) + 1, invoice |-> inv,
                    amount |-> amount, currency |-> currency]
        out == post_receipt_journal(journals, receipt, failAt)
    IN  /\ Len(receipts) < MaxReceipts
        /\ Cardinality(journals) < MaxJournals
        /\ inv \in {NoInvoice} \cup (1..Len(invoices))
        /\ receipts' = Append(receipts, receipt)
        /\ journals' = out.journals
        /\ last' = LastRec("receipt_create", out.err, receipt.id, {}, "")
        /\ UNCHANGED <<company, fxRates, chart, jobCurrency, today, candidates, costs,
                       invoices, payments, req>>

\* POST payments: the Payment row is saved, then its journal is posted
payment_create(amount, currency, failAt) ==
    LET payment == [id |-> Len(payments) + 1, amount |-> amount,
                    currency |-> currency]
        out == post_payment_journal(journals, payment, failAt)
    IN  /\ Len(payments) < MaxPayments
        /\ Cardinality(journals) < MaxJournals
        /\ payments' = Append(payments, payment)
        /\ journals' = out.journals
        /\ last' = LastRec("payment_create", out.err, payment.id, {}, "")
        /\ UNCHANGED <<company, fxRates, chart, jobCurrency, today, candidates, costs,
                       invoices, receipts, req>>

\* ----------------------------------------------------------- bulk operators
RECURSIVE bulk_move_loop(_, _, _, _, _)
\* the loop of bulk_move_stage over the candidates the query returned (snap);
\* st is [cands, journals, updated, err]
bulk_move_loop(snap, ids, new_stage, st, failAt) ==
    IF ids = << >> \/ st.err # "none" THEN st
    ELSE IF Head(ids) \notin CandIds
         THEN bulk_move_loop(snap, Tail(ids), new_stage, st, failAt)
    ELSE LET loaded == LoadCandidate(snap, Head(ids))
             old_stage == loaded.current_stage
             obj == MoveObj(loaded, new_stage)
             post == ShouldPostDeployment(old_stage, new_stage)
             out == IF post THEN post_deployment_journal(st.journals, obj, failAt)
                    ELSE Outcome("none", st.journals)
         IN  bulk_move_loop(snap, Tail(ids), new_stage,
                 [cands |-> SaveCandidate(st.cands, obj),
                  journals |-> out.journals,
                  updated |-> st.updated + (IF post THEN 1 ELSE 0),
                  err |-> out.err],
                 failAt)

\* @transaction.atomic: an exception leaves the tables as they were
bulk_move_stage(snap, ids, new_stage, failAt) ==
    LET st0 == [cands |-> candidates, journals |-> journals, updated |-> 0,
                err |-> "none"]
        st == bulk_move_loop(snap, SeqOf(ids), new_stage, st0, failAt)
    IN  IF st.err = "none" THEN st ELSE [st0 EXCEPT !.err = st.err]

\* POST /api/candidates/bulk/move-stage/
candidate_bulk_move_stage(ids, new_stage, failAt) ==
    LET st == bulk_move_stage(candidates, ids, new_stage, failAt)
    IN  /\ Cardinality(journals) + Cardinality(ids) <= MaxJournals
        /\ candidates' = st.cands
        /\ journals' = st.journals
        /\ last' = LastRec("bulk_move_stage", st.err, st.updated, ids, new_stage)
        /\ UNCHANGED <<company, fxRates, chart, jobCurrency, today, costs, invoices,
                       receipts, payments, req>>

RECURSIVE bulk_add_loop(_, _, _, _, _, _)
\* the loop of bulk_add_cost; st is [costs, journals, created, err]
bulk_add_loop(ids, amount, currency, reimbursable, st, failAt) ==
    IF ids = << >> \/ st.err # "none" THEN st
    ELSE IF Head(ids) \notin CandIds
         THEN [st EXCEPT !.err = "notfound"]
    ELSE LET cost == NewCost(Len(st.costs) + 1, Head(ids), amount, currency,
                             reimbursable)
             out == post_wip_cost_journal(st.journals, cost, failAt)
         IN  bulk_add_loop(Tail(ids), amount, currency, reimbursable,
                 [costs |-> Append(st.costs, cost),
                  journals |-> out.journals,
                  created |-> st.created + 1,
                  err |-> out.err],
                 failAt)

\* @transaction.atomic: an exception leaves the tables as they were
bulk_add_cost(ids, amount, currency, reimbursable, failAt) ==
    LET st0 == [costs |-> costs, journals |-> journals, created |-> 0,
                err |-> "none"]
        st == bulk_add_loop(SeqOf(ids), amount, currency, reimbursable, st0, failAt)
    IN  IF st.err = "none" THEN st ELSE [st0 EXCEPT !.err = st.err]

\* POST /api/candidates/bulk/add-cost/
candidate_bulk_add_cost(ids, amount, currency, reimbursable, failAt) ==
    LET st == bulk_add_cost(ids, amount, currency, reimbursable, failAt)
    IN  /\ Len(costs) + Cardinality(ids) <= MaxCosts
        /\ Cardinality(journals) + Cardinality(ids) <= MaxJournals
        /\ costs' = st.costs
        /\ journals' = st.journals
        /\ last' = LastRec("bulk_add_cost", st.err, st.created, ids, "")
        /\ UNCHANGED <<company, fxRates, chart, jobCurrency, today, candidates, invoices,
                       receipts, payments, req>>

\* ----------------------------------------------------------- specifications
BulkIds == (SUBSET (1..(NumCandidates + 1))) \ {{}}
\* the database rejects no write, or the first write of the posting
FailAtomic == {0, 1}
\* ... or a later one: the Journal row, or one of its lines
FailPoints == {0, 1, 2, 3}

\* The stage transitions of the candidates, one request at a time.
InitStage == Init /\ jobCurrency = "EUR"

NextStage ==
    \/ Tick
    \/ \E r \in FxUniverse : AddFxRate(r)
    \/ \E c \in CandIds, s \in StageInputs, f \in FailAtomic :
          candidate_move_stage(c, s, f)
    \/ \E ids \in BulkIds, s \in StageInputs, f \in FailAtomic :
          candidate_bulk_move_stage(ids, s, f)

SpecStage == InitStage /\ [][NextStage]_vars

\* The cost entry points, one request at a time.
InitCost == Init /\ jobCurrency = "USD"

NextCost ==
    \/ Tick
    \/ \E r \in FxUniverse : AddFxRate(r)
    \/ \E c \in CandIds, a \in CostAmounts, cur \in CURRENCY_CHOICES, rb \in BOOLEAN :
          candidate_add_cost(c, a, cur, rb)
    \/ \E ids \in BulkIds, a \in CostAmounts, cur \in CURRENCY_CHOICES,
          rb \in BOOLEAN, f \in FailAtomic :
          candidate_bulk_add_cost(ids, a, cur, rb, f)

SpecCost == InitCost /\ [][NextCost]_vars

\* Deployment, invoices, receipts and payments, one request at a time.
InvoiceIds == {{1}, {1, 2}}

NextLedger ==
    \/ \E r \in FxUniverse : AddFxRate(r)
    \/ \E c \in CandIds, f \in FailAtomic : candidate_move_stage(c, "DEPLOYED", f)
    \/ \E ids \in InvoiceIds, f \in FailAtomic : invoice_generate(ids, f)
    \/ \E i \in 0..MaxInvoices, a \in ReceiptAmounts, cur \in CURRENCY_CHOICES,
          f \in FailPoints : receipt_create(i, a, cur, f)
    \/ \E a \in PaymentAmounts, cur \in CURRENCY_CHOICES, f \in FailPoints :
          payment_create(a, cur, f)

SpecLedger == InitStage /\ [][NextLedger]_vars

\* post_journal called on its own, with lines of every kind.
PosterLines ==
    { << Line("AR", 10000, 0), Line("REVENUE", 0, 10000) >>,
      << Line("AR", 10000 + Tol, 0), Line("REVENUE", 0, 10000) >>,
      << Line("AR", 10001 + Tol, 0), Line("REVENUE", 0, 10000) >>,
      << Line("AR", 10000, 0), Line("REVENUE", 0, 10001 + Tol) >>,
      << Line("AR", 30000, 0), Line("REVENUE", 0, 10000) >>,
      << Line("AR", 10000, 0) >>,
      << Line("AR", 20000, 0), Line("REVENUE", 0, 10000), Line("TAX", 0, 10000) >> }

call_post_journal(lines, failAt) ==
    LET out == post_journal(journals, "DIRECT", 0, lines, failAt)
    IN  /\ Cardinality(journals) < MaxJournals
        /\ journals' = out.journals
        /\ last' = [LastRec("post_journal", out.err, 0, {}, "") EXCEPT !.lines = lines]
        /\ UNCHANGED <<company, fxRates, chart, jobCurrency, today, candidates, costs,
                       invoices, receipts, payments, req>>

NextPoster ==
    \E lines \in PosterLines, f \in {0, 1, 2, 3, 4} : call_post_journal(lines, f)

SpecPoster == InitCost /\ [][NextPoster]_vars

\* The five translators called on their own, on rows that exist.
SampleCosts ==
    << [id |-> 1, candidate |-> 1, amount |-> 100 * Scale, currency |-> "EUR",
        date |-> 1, reimbursable |-> TRUE],
       [id |-> 2, candidate |-> 2, amount |-> 100 * Scale, currency |-> "USD",
        date |-> 1, reimbursable |-> TRUE] >>
SampleInvoices ==
    << [id |-> 1, total_amount |-> 1000 * Scale, tax_amount |-> 180 * Scale,
        currency |-> "USD", cands |-> {1}],
       [id |-> 2, total_amount |-> 500 * Scale, tax_amount |-> 0,
        currency |-> "EUR", cands |-> {1}],
       [id |-> 3, total_amount |-> 1000 * Scale, tax_amount |-> 180 * Scale,
        currency |-> "EUR", cands |-> {2}] >>
SampleReceipts ==
    << [id |-> 1, invoice |-> 1, amount |-> 1000 * Scale, currency |-> "USD"],
       [id |-> 2, invoice |-> 2, amount |-> 500 * Scale, currency |-> "EUR"],
       [id |-> 3, invoice |-> NoInvoice, amount |-> 100 * Scale, currency |-> "USD"],
       [id |-> 4, invoice |-> 1, amount |-> 1100 * Scale, currency |-> "USD"] >>
SamplePayments ==
    << [id |-> 1, amount |-> 100 * Scale, currency |-> "USD"],
       [id |-> 2, amount |-> 100 * Scale, currency |-> "EUR"] >>

InitTranslators ==
    /\ company = NewCompany
    /\ fxRates = {}
    /\ chart \in BOOLEAN
    /\ jobCurrency = "EUR"
    /\ today = 1
    /\ candidates = [c \in CandIds |->
                        IF c = 1
                        THEN [current_stage |-> "DEPLOYED", deployed_date |-> 1]
                        ELSE [current_stage |-> "SOURCING", deployed_date |-> NoDate]]
    /\ costs = SampleCosts
    /\ invoices = SampleInvoices
    /\ receipts = SampleReceipts
    /\ payments = SamplePayments
    /\ journals = {}
    /\ req = [p \in Procs |-> IdleReq]
    /\ last = LastRec("init", "none", 0, {}, "")

\* a translator returned out for the row ref
Called(op, ref, out) ==
    /\ Cardinality(journals) < MaxPosted
    /\ journals' = out.journals
    /\ last' = LastRec(op, out.err, ref, {}, "")
    /\ UNCHANGED <<company, fxRates, chart, jobCurrency, today, candidates, costs,
                   invoices, receipts, payments, req>>

call_post_wip_cost_journal(i, failAt) ==
    Called("post_wip_cost_journal", i, post_wip_cost_journal(journals, costs[i], failAt))

call_post_deployment_journal(c, failAt) ==
    Called("post_deployment_journal", c,
           post_deployment_journal(journals, LoadCandidate(candidates, c), failAt))

call_post_invoice_journal(i, failAt) ==
    Called("post_invoice_journal", i, post_invoice_journal(journals, invoices[i], failAt))

call_post_receipt_journal(i, failAt) ==
    Called("post_receipt_journal", i, post_receipt_journal(journals, receipts[i], failAt))

call_post_payment_journal(i, failAt) ==
    Called("post_payment_journal", i, post_payment_journal(journals, payments[i], failAt))

NextTranslators ==
    \/ Tick
    \/ \E r \in FxUniverse : AddFxRate(r)
    \/ \E i \in 1..Len(costs), f \in FailPoints : call_post_wip_cost_journal(i, f)
    \/ \E c \in CandIds, f \in FailPoints : call_post_deployment_journal(c, f)
    \/ \E i \in 1..Len(invoices), f \in FailPoints : call_post_invoice_journal(i, f)
    \/ \E i \in 1..Len(receipts), f \in FailPoints : call_post_receipt_journal(i, f)
    \/ \E i \in 1..Len(payments), f \in FailPoints : call_post_payment_journal(i, f)

SpecTranslators == InitTranslators /\ [][NextTranslators]_vars

\* Move-stage requests to DEPLOYED served by two workers at once; a step is
\* one database statement (one transaction for the bulk operator).
Working(p, kind, ids) ==
    [pc |-> "loaded", kind |-> kind, ids |-> ids,
     snap |-> [c \in ids \cap CandIds |-> candidates[c]]]

OnlyReq(p, r) == req' = [req EXCEPT ![p] = r]

\* candidate_move_stage: get_object_or_404 reads the row
move_stage_load(p, c) ==
    /\ req[p].pc = "idle"
    /\ OnlyReq(p, Working(p, "single", {c}))
    /\ UNCHANGED <<company, fxRates, chart, jobCurrency, today, candidates, costs,
                   invoices, receipts, payments, journals, last>>

\* candidate_move_stage: candidate.save() writes the row
move_stage_save(p) ==
    /\ req[p].pc = "loaded" /\ req[p].kind = "single"
    /\ \E c \in req[p].ids :
          candidates' = SaveCandidate(candidates,
                            MoveObj(LoadCandidate(req[p].snap, c), "DEPLOYED"))
    /\ OnlyReq(p, [req[p] EXCEPT !.pc = "saved"])
    /\ UNCHANGED <<company, fxRates, chart, jobCurrency, today, costs, invoices,
                   receipts, payments, journals, last>>

\* candidate_move_stage: the posting, guarded by the stage that was read
move_stage_post(p, failAt) ==
    /\ req[p].pc = "saved"
    /\ \E c \in req[p].ids :
          LET loaded == LoadCandidate(req[p].snap, c)
              out == IF ShouldPostDeployment(loaded.current_stage, "DEPLOYED")
                     THEN post_deployment_journal(journals,
                              MoveObj(loaded, "DEPLOYED"), failAt)
                     ELSE Outcome("none", journals)
          IN  /\ journals' = out.journals
              /\ last' = LastRec("candidate_move_stage", out.err, c, {c}, "DEPLOYED")
    /\ OnlyReq(p, [req[p] EXCEPT !.pc = "done"])
    /\ UNCHANGED <<company, fxRates, chart, jobCurrency, today, candidates, costs,
                   invoices, receipts, payments>>

\* bulk_move_stage: the query of the loop reads the rows
bulk_load(p, ids) ==
    /\ req[p].pc = "idle"
    /\ OnlyReq(p, Working(p, "bulk", ids))
    /\ UNCHANGED <<company, fxRates, chart, jobCurrency, today, candidates, costs,
                   invoices, receipts, payments, journals, last>>

\* bulk_move_stage: the writes of the loop, committed together.  The database
\* of settings.py (SQLite) refuses the writes of a transaction that read a
\* row another connection has written since: the request fails, no row changes.
bulk_commit(p, failAt) ==
    /\ req[p].pc = "loaded" /\ req[p].kind = "bulk"
    /\ LET stale == \E c \in DOMAIN req[p].snap : candidates[c] # req[p].snap[c]
           st == bulk_move_stage(req[p].snap, req[p].ids, "DEPLOYED", failAt)
       IN  IF stale
           THEN /\ last' = LastRec("bulk_move_stage", "db", 0, req[p].ids, "DEPLOYED")
                /\ UNCHANGED <<candidates, journals>>
           ELSE /\ candidates' = st.cands
                /\ journals' = st.journals
                /\ last' = LastRec("bulk_move_stage", st.err, st.updated,
                                   req[p].ids, "DEPLOYED")
    /\ OnlyReq(p, [req[p] EXCEPT !.pc = "done"])
    /\ UNCHANGED <<company, fxRates, chart, jobCurrency, today, costs, invoices,
                   receipts, payments>>

NextConc ==
    \/ \E p \in Procs, c \in CandIds : move_stage_load(p, c)
    \/ \E p \in Procs : move_stage_save(p)
    \/ \E p \in Procs, f \in FailAtomic : move_stage_post(p, f)
    \/ \E p \in Procs, ids \in BulkIds : bulk_load(p, ids)
    \/ \E p \in Procs, f \in FailAtomic : bulk_commit(p, f)

SpecConc == InitCost /\ [][NextConc]_vars

\* ------------------------------------------------------------------ properties
JournalsOf(kind, ref) == {j \in journals : j.kind = kind /\ j.ref = ref}

Balanced(j) == Abs(SumDebit(j.lines) - SumCredit(j.lines)) <= Tol

\* C1: every persisted journal is balanced: the debits and the credits of its
\* lines differ by at most 0.01.
C1_BalanceInvariant == \A j \in journals : Balanced(j)

\* C2: a call of post_journal with lines whose debits and credits differ by
\* more than 0.01 raises the unbalanced-journal error and leaves the Journal
\* and JournalLine rows as they were.
C2_UnbalancedRejected ==
    [][ (last'.op = "post_journal"
         /\ Abs(SumDebit(last'.lines) - SumCredit(last'.lines)) > Tol)
        => (last'.err = "unbalanced" /\ journals' = journals) ]_vars

C2_Witness ==
    /\ last.op = "post_journal"
    /\ last.err = "unbalanced"
    /\ SumCredit(last.lines) > SumDebit(last.lines)
    /\ journals # {}

\* C3: post_journal is all-or-nothing for every caller: every persisted
\* journal has one line per line the caller passed.
C3_AllLinesWritten == \A j \in journals : Len(j.lines) = j.nInput

\* C4: over any sequence of move-stage calls at most one deployment journal
\* is posted for a candidate.
C4_OneDeploymentJournal ==
    \A c \in CandIds : Cardinality(JournalsOf("DEPLOY", c)) <= 1

\* C5: when concurrent requests move a candidate to DEPLOYED, once they have
\* all completed at most one deployment journal exists for the candidate.
C5_NoDoublePosting ==
    (\A p \in Procs : req[p].pc \in {"idle", "done"})
    => \A c \in CandIds : ~(\E j \in JournalsOf("DEPLOY", c) : j.n > 1)

\* C6: a call of post_deployment_journal on a candidate that already has its
\* deployment journal is a no-op: it creates no Journal and no JournalLine row.
C6_SecondCallNoOp ==
    [][ (last'.op = "post_deployment_journal"
         /\ fxRates' = fxRates
         /\ JournalsOf("DEPLOY", last'.ref) # {})
        => journals' = journals ]_vars

\* C7: when the posting fails inside candidate_move_stage, the candidate's
\* current_stage and deployed_date stay as they were before the request.
C7_StageAndJournalTogether ==
    [][ (last'.op = "candidate_move_stage"
         /\ last'.err \notin {"none", "invalid"})
        => candidates' = candidates ]_vars

\* the translator op, called on the row ref, needs an FX rate that the table
\* lacks, or the chart of accounts that the company lacks
LacksConfiguration(op, ref) ==
    CASE op = "post_wip_cost_journal" ->
            ~HasRate(costs[ref].currency, BaseCurrency, costs[ref].date) \/ ~chart
      [] op = "post_deployment_journal" ->
            /\ candidates[ref].current_stage = "DEPLOYED"
            /\ \/ \E i \in 1..Len(costs) :
                     /\ costs[i].candidate = ref
                     /\ ~HasRate(costs[i].currency, BaseCurrency, costs[i].date)
               \/ ~HasRate(jobCurrency, BaseCurrency, today)
               \/ ~chart
      [] op = "post_invoice_journal" ->
            ~HasRate(invoices[ref].currency, BaseCurrency, today) \/ ~chart
      [] op = "post_receipt_journal" ->
            \/ ~HasRate(receipts[ref].currency, BaseCurrency, today)
            \/ /\ receipts[ref].invoice # NoInvoice
               /\ ~HasRate(invoices[receipts[ref].invoice].currency, BaseCurrency, today)
            \/ ~chart
      [] op = "post_payment_journal" ->
            ~HasRate(payments[ref].currency, BaseCurrency, today) \/ ~chart
      [] OTHER -> FALSE

\* C8: a translator called without a needed FX rate, or for a company without
\* chart of accounts, raises an error and leaves the Journal and JournalLine
\* rows as they were.
C8_FailedTranslatorWritesNothing ==
    [][ (fxRates' = fxRates /\ LacksConfiguration(last'.op, last'.ref))
        => (last'.err # "none" /\ journals' = journals) ]_vars

C8_Witness ==
    /\ last.op = "post_payment_journal"
    /\ last.err = "fx"
    /\ journals # {}

\* C9: every Receipt, Payment and generated Invoice that exists has its journal.
C9_DocumentHasJournal ==
    /\ \A i \in 1..Len(receipts) : JournalsOf("RECEIPT", i) # {}
    /\ \A i \in 1..Len(payments) : JournalsOf("PAYMENT", i) # {}
    /\ \A i \in 1..Len(invoices) : JournalsOf("INVOICE", i) # {}

\* C10: every CandidateCost row has exactly one cost-incurred journal.
C10_CostHasOneJournal ==
    \A i \in 1..Len(costs) : Cardinality(JournalsOf("COST", i)) = 1

\* C11: a call of post_wip_cost_journal for a cost that already has its
\* cost-incurred journal creates no second journal.
C11_RepostCostNoOp ==
    [][ (last'.op = "post_wip_cost_journal"
         /\ fxRates' = fxRates /\ today' = today
         /\ JournalsOf("COST", last'.ref) # {})
        => journals' = journals ]_vars

\* C12: bulk_add_cost called with ids of which some do not exist raises
\* nothing because of them, returns created = the number of ids that exist,
\* and leaves that many new CandidateCost rows and cost journals.
C12_MissingIdsSkipped ==
    [][ (last'.op = "bulk_add_cost"
         /\ last'.ids \ CandIds # {}
         /\ last'.err \notin {"db", "fx", "chart"})
        => LET n == Cardinality(last'.ids \cap CandIds)
           IN  /\ last'.err = "none"
               /\ last'.ref = n
               /\ Len(costs') = Len(costs) + n
               /\ Cardinality(journals') = Cardinality(journals) + n ]_vars

\* ---------------------------------------------------- costs, then deployment
\* Costs are recorded for the candidates, then the candidates are deployed,
\* one by one or in bulk; one request at a time.
NextDeploy ==
    \/ \E r \in FxUniverse : AddFxRate(r)
    \/ \E c \in CandIds, a \in CostAmounts, cur \in CURRENCY_CHOICES :
          candidate_add_cost(c, a, cur, TRUE)
    \/ \E c \in CandIds, f \in FailAtomic : candidate_move_stage(c, "DEPLOYED", f)
    \/ \E ids \in BulkIds, f \in FailAtomic :
          candidate_bulk_move_stage(ids, "DEPLOYED", f)

SpecDeploy == Init /\ [][NextDeploy]_vars

\* post_deployment_journal finds every rate and account it needs for candidate c
DeployConfigured(c) ==
    /\ CostsRated(c, 1)
    /\ HasRate(jobCurrency, BaseCurrency, today)
    /\ chart

\* C13: in bulk_move_stage to DEPLOYED the posting failure of one candidate
\* neither rolls back nor blocks the others: the call returns its summary and
\* every candidate whose own posting can succeed is DEPLOYED with its journal.
C13_BulkPartialSuccess ==
    [][ (last'.op = "bulk_move_stage" /\ last'.stage = "DEPLOYED"
         /\ last'.err # "db")
        => /\ last'.err = "none"
           /\ \A c \in last'.ids \cap CandIds :
                 DeployConfigured(c)
                 => /\ candidates'[c].current_stage = "DEPLOYED"
                    /\ \E j \in journals' : j.kind = "DEPLOY" /\ j.ref = c ]_vars

\* ------------------------------------------------------ the two converters
\* The rate rows the store can hold: EUR->USD rows on any day, one USD->EUR
\* row.  No GBP row exists: a pair with GBP has neither direct nor reverse rate.
FxDays == 1..(MaxDay + 1)
FxStore ==
    {FxRow("EUR", "USD", d, UnitRate + 1000 * d) : d \in FxDays}
    \cup {FxRow("USD", "EUR", 1, 8000)}
FxCurrencies == {"USD", "EUR", "GBP"}
\* the amounts converted: <<amount is None, amount>>
FxAmounts == {<<TRUE, 0>>, <<FALSE, 0>>, <<FALSE, 100 * Scale>>, <<FALSE, 12345>>}

\* round(x, 2) of a Decimal x = n/d currency units, in 1/10000 units
Round2(n, d) == 100 * RoundHalfEven(100 * n, d)

\* round(amount * rate, 2); the product is split so that it stays in 32 bits
MulRound2(amount, rate) ==
    LET cents == (amount \div 100) * rate
        whole == cents \div Scale
        frac == (cents % Scale) * 100 + (amount % 100) * rate
    IN  100 * (whole + RoundHalfEven(frac + (whole % 2) * (100 * Scale), 100 * Scale)
               - (whole % 2))

\* round(amount / rate, 2)
DivRound2(amount, rate) == 100 * RoundHalfEven(amount * 100, rate)

\* the rows of a pair dated on or before date
RowsUpTo(from_currency, to_currency, date) ==
    {r \in fxRates : r.from_currency = from_currency /\ r.to_currency = to_currency
                     /\ r.rate_date <= date}

\* .order_by('-rate_date').first() of a non-empty set of rows of one pair
LatestRow(rows) ==
    CHOOSE r \in rows : \A q \in rows : q.rate_date <= r.rate_date

\* reports/views.py convert_currency; absent is amount = None
reports_convert_currency(absent, amount, from_currency, to_currency, date) ==
    LET direct == RowsUpTo(from_currency, to_currency, date)
        reverse == RowsUpTo(to_currency, from_currency, date)
    IN  IF absent THEN 0
        ELSE IF amount = 0 \/ from_currency = to_currency THEN Round2(amount, Scale)
        ELSE IF direct # {} THEN MulRound2(amount, LatestRow(direct).rate)
        ELSE IF reverse # {} THEN DivRound2(amount, LatestRow(reverse).rate)
        ELSE Round2(amount, Scale)

\* the record of a conversion that completed: its arguments and its outcome
ConvRec(op, err, absent, amount, from, to, date, result) ==
    [op |-> op, err |-> err, absent |-> absent, amount |-> amount, from |-> from,
     to |-> to, date |-> date, result |-> result]

Converted(rec) ==
    /\ last' = rec
    /\ UNCHANGED <<company, fxRates, chart, jobCurrency, today, candidates, costs, invoices,
                   receipts, payments, journals, req>>

\* core/utils.py convert_currency: get_fx_rate raises without a rate, and the
\* product of None and the rate raises a TypeError
call_convert_currency(absent, amount, from, to, date) ==
    Converted(
        IF ~HasRate(from, to, date)
        THEN ConvRec("convert_currency", "fx", absent, amount, from, to, date, 0)
        ELSE IF absent
        THEN ConvRec("convert_currency", "type", absent, amount, from, to, date, 0)
        ELSE ConvRec("convert_currency", "none", absent, amount, from, to, date,
                     convert_currency(amount, from, to, date)))

\* reports/views.py convert_currency never raises
call_reports_convert_currency(absent, amount, from, to, date) ==
    Converted(ConvRec("reports_convert_currency", "none", absent, amount, from, to,
                      date, reports_convert_currency(absent, amount, from, to, date)))

\* core/views.py dashboard_stats: the revenue of a company whose base currency
\* is base, converted to USD by the convert_currency of core/utils.py
\* (from .utils import *): convert_currency(rev, base, 'USD', today) or rev
dashboard_stats(rev, base) ==
    Converted(
        IF ~HasRate(base, "USD", today)
        THEN ConvRec("dashboard_stats", "fx", FALSE, rev, base, "USD", today, 0)
        ELSE LET conv == convert_currency(rev, base, "USD", today)
             IN  ConvRec("dashboard_stats", "none", FALSE, rev, base, "USD", today,
                         IF conv = 0 THEN rev ELSE conv))

InitFx == InitCost /\ chart

NextFx ==
    \/ \E r \in FxStore : AddFxRate(r)
    \/ \E a \in FxAmounts, f \in FxCurrencies, t \in FxCurrencies, d \in FxDays :
          call_convert_currency(a[1], a[2], f, t, d)
    \/ \E a \in FxAmounts, f \in FxCurrencies, t \in FxCurrencies, d \in FxDays :
          call_reports_convert_currency(a[1], a[2], f, t, d)
    \/ \E a \in FxAmounts, b \in FxCurrencies : ~a[1] /\ dashboard_stats(a[2], b)

SpecFx == InitFx /\ [][NextFx]_vars

\* C14: between two different currencies the posting converter multiplies by
\* the direct rate of the greatest rate_date on or before the date asked for;
\* a rate dated after that date is never used.
C14_LatestRateOnOrBefore ==
    [][ (last'.op = "convert_currency" /\ fxRates' = fxRates
         /\ ~last'.absent /\ last'.from # last'.to)
        => LET rows == RowsUpTo(last'.from, last'.to, last'.date)
           IN  IF rows = {} THEN last'.err # "none"
               ELSE /\ last'.err = "none"
                    /\ last'.result = MulQuantize(last'.amount, LatestRow(rows).rate)
      ]_vars

\* C15: when the store holds no direct rate from -> to but a reverse rate
\* to -> from = r dated on or before the date, the posting converter
\* succeeds and returns amount / r, rounded.
C15_ReverseRateUsed ==
    [][ (last'.op = "convert_currency" /\ fxRates' = fxRates
         /\ ~last'.absent /\ last'.from # last'.to
         /\ RowsUpTo(last'.from, last'.to, MaxDay + 1) = {}
         /\ RowsUpTo(last'.to, last'.from, last'.date) # {})
        => /\ last'.err = "none"
           /\ last'.result =
                 DivRound2(last'.amount,
                           LatestRow(RowsUpTo(last'.to, last'.from, last'.date)).rate)
      ]_vars

\* C16: both converters return, for equal currencies, the amount rounded to 2
\* decimal places, whatever the store holds; an absent amount gives zero.
C16_IdentityConversion ==
    [][ (last'.op \in {"convert_currency", "reports_convert_currency"}
         /\ fxRates' = fxRates /\ last'.from = last'.to)
        => /\ last'.err = "none"
           /\ last'.result = IF last'.absent THEN 0
                              ELSE Round2(last'.amount, Scale) ]_vars

\* C17: a conversion made for a report (the reports endpoints, dashboard_stats)
\* never raises when the store holds neither a direct nor a reverse rate on or
\* before the date: it returns the unconverted amount rounded to 2 decimals.
C17_ReportingNeverRaises ==
    [][ (last'.op \in {"reports_convert_currency", "dashboard_stats"}
         /\ fxRates' = fxRates
         /\ ~last'.absent /\ last'.from # last'.to
         /\ RowsUpTo(last'.from, last'.to, last'.date) = {}
         /\ RowsUpTo(last'.to, last'.from, last'.date) = {})
        => /\ last'.err = "none"
           /\ last'.result = Round2(last'.amount, Scale) ]_vars

\* ------------------------------------------------- cost postings over time
\* Two recorded costs, one in EUR incurred on day 2 and one in the base
\* currency, posted while rates of several days enter the store.
DatedCosts ==
    << [id |-> 1, candidate |-> 1, amount |-> 100 * Scale, currency |-> "EUR",
        date |-> 2, reimbursable |-> TRUE],
       [id |-> 2, candidate |-> 2, amount |-> 100 * Scale, currency |-> "USD",
        date |-> 1, reimbursable |-> FALSE] >>

NextCostPost ==
    \/ \E r \in FxStore : AddFxRate(r)
    \/ \E i \in 1..Len(costs), f \in FailAtomic : call_post_wip_cost_journal(i, f)

InitCostPost ==
    /\ company = NewCompany
    /\ fxRates = {}
    /\ chart \in BOOLEAN
    /\ jobCurrency = "EUR"
    /\ today = 1
    /\ candidates = NewCandidates
    /\ costs = DatedCosts
    /\ invoices = << >>
    /\ receipts = << >>
    /\ payments = << >>
    /\ journals = {}
    /\ req = [p \in Procs |-> IdleReq]
    /\ last = LastRec("init", "none", 0, {}, "")

SpecCostPost == InitCostPost /\ [][NextCostPost]_vars

\* C18: the journal post_wip_cost_journal posts for a cost has exactly two
\* lines, a WIP debit and an Accounts Payable credit, both the cost amount
\* converted to the base currency at the rate of the day the cost was
\* incurred (the latest rate dated on or before that day).
C18_CostJournalLines ==
    [][ (last'.op = "post_wip_cost_journal" /\ fxRates' = fxRates
         /\ last'.err = "none")
        => LET cost == costs[last'.ref]
               rows == RowsUpTo(cost.currency, BaseCurrency, cost.date)
               rate == IF cost.currency = BaseCurrency THEN UnitRate
                       ELSE LatestRow(rows).rate
               local == MulQuantize(cost.amount, rate)
           IN  /\ cost.currency # BaseCurrency => rows # {}
               /\ Cardinality(journals' \ journals) = 1
               /\ \A j \in journals' \ journals :
                     /\ j.kind = "COST" /\ j.ref = cost.id
                     /\ j.lines = << Line("WIP", local, 0), Line("AP", 0, local) >>
      ]_vars

\* ------------------------------------------------ cost-then-deploy round trip
\* Costs are recorded (in EUR for candidate 1, in the base currency for
\* candidate 2), and the candidates move into DEPLOYED, on to INVOICED and
\* back, one request at a time.
RoundTripCosts == {<<1, "EUR">>, <<2, "USD">>}

NextRoundTrip ==
    \/ \E r \in FxUniverse : AddFxRate(r)
    \/ \E k \in RoundTripCosts, a \in CostAmounts :
          candidate_add_cost(k[1], a, k[2], TRUE)
    \/ \E c \in CandIds, st \in {"DEPLOYED", "INVOICED"}, f \in FailAtomic :
          candidate_move_stage(c, st, f)
    \/ \E f \in FailAtomic : candidate_bulk_move_stage(CandIds, "DEPLOYED", f)

SpecRoundTrip == Init /\ [][NextRoundTrip]_vars

\* the rate in force on date for from -> to: 1 for equal currencies, else the
\* direct rate of the latest rate_date on or before date (NoRate without one)
RateInForce(from, to, date) ==
    IF from = to THEN UnitRate
    ELSE IF RowsUpTo(from, to, date) = {} THEN NoRate
    ELSE LatestRow(RowsUpTo(from, to, date)).rate

RECURSIVE CostsInBase(_, _)
\* the costs of candidate c, from the i-th on, summed in the base currency
CostsInBase(c, i) ==
    IF i > Len(costs) THEN 0
    ELSE (IF costs[i].candidate = c
          THEN MulQuantize(costs[i].amount,
                           RateInForce(costs[i].currency, BaseCurrency, costs[i].date))
          ELSE 0) + CostsInBase(c, i + 1)

ReceiptCases ==
    << [id |-> 1, invoice |-> 1, amount |-> 1000 * Scale, currency |-> "USD"],
       [id |-> 2, invoice |-> 1, amount |-> 1100 * Scale, currency |-> "USD"],
       [id |-> 3, invoice |-> 1, amount |-> 900 * Scale, currency |-> "USD"],
       [id |-> 4, invoice |-> 1, amount |-> 1000 * Scale + Tol, currency |-> "USD"],
       [id |-> 5, invoice |-> 1, amount |-> 1000 * Scale + 2 * Tol, currency |-> "USD"],
       [id |-> 6, invoice |-> 2, amount |-> 550 * Scale, currency |-> "USD"],
       [id |-> 7, invoice |-> 2, amount |-> 500 * Scale, currency |-> "USD"],
       [id |-> 8, invoice |-> NoInvoice, amount |-> 100 * Scale, currency |-> "USD"] >>

InitReceipt ==
    /\ company = NewCompany
    /\ fxRates = {}
    /\ chart \in BOOLEAN
    /\ jobCurrency = "EUR"
    /\ today = 1
    /\ candidates = NewCandidates
    /\ costs = << >>
    /\ invoices = SampleInvoices
    /\ receipts = ReceiptCases
    /\ payments = << >>
    /\ journals = {}
    /\ req = [p \in Procs |-> IdleReq]
    /\ last = LastRec("init", "none", 0, {}, "")

\* post_receipt_journal(receipt) is called; the record keeps the lines it
\* handed to post_journal, if it got that far
call_receipt_lines(i, failAt) ==
    LET out == post_receipt_journal(journals, receipts[i], failAt)
    IN  /\ Cardinality(journals) < MaxPosted
        /\ journals' = out.journals
        /\ last' = [LastRec("post_receipt_journal", out.err, i, {}, "")
                      EXCEPT !.lines = IF out.err \in {"fx", "attr", "chart"}
                                       THEN << >>
                                       ELSE receipt_lines(receipts[i])]
        /\ UNCHANGED <<company, fxRates, chart, jobCurrency, today, candidates, costs,
                       invoices, receipts, payments, req>>

NextReceipt ==
    \/ \E r \in FxUniverse : AddFxRate(r)
    \/ Tick
    \/ \E i \in 1..Len(ReceiptCases), f \in FailPoints : call_receipt_lines(i, f)

SpecReceipt == InitReceipt /\ [][NextReceipt]_vars

\* the receipt's amount less its invoice's total, both in the base currency at
\* the rate in force today
ReceiptResidual(r) ==
    MulQuantize(r.amount, RateInForce(r.currency, BaseCurrency, today))
    - MulQuantize(invoices[r.invoice].total_amount,
                  RateInForce(invoices[r.invoice].currency, BaseCurrency, today))

\* the receipt has an invoice, both currencies have a rate and the chart of
\* accounts is complete
ReceiptConfigured(r) ==
    /\ r.invoice # NoInvoice
    /\ RateInForce(r.currency, BaseCurrency, today) # NoRate
    /\ RateInForce(invoices[r.invoice].currency, BaseCurrency, today) # NoRate
    /\ chart

\* C21: a receipt whose converted amount differs from the converted total of
\* its invoice is posted, not rejected: when the database accepts the rows,
\* post_receipt_journal returns without error and the receipt's journal
\* balances within 0.01.
C21_PlugBalancesReceipt ==
    [][ (/\ last'.op = "post_receipt_journal"
         /\ ReceiptConfigured(receipts[last'.ref])
         /\ ReceiptResidual(receipts[last'.ref]) # 0
         /\ last'.err # "db"
         /\ JournalsOf("RECEIPT", last'.ref) = {})
        => /\ last'.err = "none"
           /\ \E j \in journals' : /\ j \notin journals
                                   /\ j.kind = "RECEIPT"
                                   /\ j.ref = last'.ref
                                   /\ Balanced(j) ]_vars

Absent == [given |-> FALSE, value |-> 0]
Given(v) == [given |-> TRUE, value |-> v]

\* request data of CandidateSerializer: current_stage and deployed_date are
\* both writable (fields = '__all__'), deployed_date may be null
CandidateData ==
    [current_stage : {Absent} \cup {Given(s) : s \in {"TICKET", "DEPLOYED", "ARCHIVED"}},
     deployed_date : {Absent} \cup {Given(d) : d \in {NoDate, 1}}]

\* serializer.is_valid(): current_stage must be one of the choices
is_valid(data) ==
    data.current_stage.given => data.current_stage.value \in STAGE_CHOICES

\* serializer.save(): the given fields replace those of the row
Validated(row, data) ==
    [current_stage |-> IF data.current_stage.given
                       THEN data.current_stage.value ELSE row.current_stage,
     deployed_date |-> IF data.deployed_date.given
                       THEN data.deployed_date.value ELSE row.deployed_date]

\* POST /api/candidates/ : a row with the next id, built from the defaults of
\* the model and the request data
candidate_list_post(data) ==
    LET c == Cardinality(DOMAIN candidates) + 1
        defaults == [current_stage |-> "SOURCING", deployed_date |-> NoDate]
    IN  /\ c <= NumCandidates
        /\ IF is_valid(data)
           THEN /\ candidates' = [x \in DOMAIN candidates \cup {c} |->
                                     IF x = c THEN Validated(defaults, data)
                                     ELSE candidates[x]]
                /\ last' = LastRec("candidate_list", "none", c, {c}, "")
           ELSE /\ last' = LastRec("candidate_list", "invalid", 0, {}, "")
                /\ UNCHANGED candidates
        /\ UNCHANGED <<company, fxRates, chart, jobCurrency, today, costs, invoices,
                       receipts, payments, journals, req>>

\* PUT /api/candidates/{id}/ : partial update of the row
candidate_detail_put(c, data) ==
    /\ c \in DOMAIN candidates
    /\ IF is_valid(data)
       THEN /\ candidates' = [candidates EXCEPT ![c] = Validated(@, data)]
            /\ last' = LastRec("candidate_detail", "none", c, {c}, "")
       ELSE /\ last' = LastRec("candidate_detail", "invalid", c, {c}, "")
            /\ UNCHANGED candidates
    /\ UNCHANGED <<company, fxRates, chart, jobCurrency, today, costs, invoices,
                   receipts, payments, journals, req>>

InitCandidate ==
    /\ company = NewCompany
    /\ fxRates = {}
    /\ chart \in BOOLEAN
    /\ jobCurrency = BaseCurrency
    /\ today = 1
    /\ candidates = << >>
    /\ costs = << >>
    /\ invoices = << >>
    /\ receipts = << >>
    /\ payments = << >>
    /\ journals = {}
    /\ req = [p \in Procs |-> IdleReq]
    /\ last = LastRec("init", "none", 0, {}, "")

NextCandidate ==
    \/ Tick
    \/ \E data \in CandidateData : candidate_list_post(data)
    \/ \E c \in CandIds, data \in CandidateData : candidate_detail_put(c, data)
    \/ \E c \in CandIds, s \in {"DEPLOYED", "INVOICED"} :
          c \in DOMAIN candidates /\ candidate_move_stage(c, s, 0)
    \/ \E ids \in (SUBSET CandIds) \ {{}}, s \in {"DEPLOYED", "INVOICED"} :
          ids \subseteq DOMAIN candidates /\ candidate_bulk_move_stage(ids, s, 0)

SpecCandidate == InitCandidate /\ [][NextCandidate]_vars

\* C23: a candidate's deployed_date is set if and only if the candidate has at
\* some point had current_stage DEPLOYED.  Candidates start without either, so
\* this is the step property: after every step, a candidate has a deployed_date
\* exactly if it had one before the step or its stage after the step is
\* DEPLOYED.
C23_DateIffEverDeployed ==
    [][ \A c \in DOMAIN candidates' :
           (candidates'[c].deployed_date # NoDate)
           <=> \/ c \in DOMAIN candidates /\ candidates[c].deployed_date # NoDate
               \/ candidates'[c].current_stage = "DEPLOYED" ]_vars

\* The move-stage requests alone, in one currency, over several days.
InitDates ==
    /\ Init
    /\ chart
    /\ jobCurrency = BaseCurrency

NextDates ==
    \/ Tick
    \/ \E c \in CandIds, s \in {"TICKET", "DEPLOYED", "INVOICED"}, f \in FailAtomic :
          candidate_move_stage(c, s, f)
    \/ \E ids \in BulkIds, s \in {"TICKET", "DEPLOYED", "INVOICED"} :
          candidate_bulk_move_stage(ids, s, 0)

SpecDates == InitDates /\ [][NextDates]_vars

\* a move-stage request, single or bulk, has just returned
MoveStageStep ==
    last'.op \in {"candidate_move_stage", "bulk_move_stage"}

\* C24: deployed_date is set exactly once, on the first transition into
\* DEPLOYED: a move-stage request, single or bulk, leaves a deployed_date that
\* is set as it is, whatever the target stage; it sets a missing one to the
\* current day when it leaves the candidate in DEPLOYED, and sets none
\* otherwise.
C24_DeployedDateSetOnce ==
    [][ MoveStageStep =>
          \A c \in CandIds :
             /\ candidates[c].deployed_date # NoDate
                  => candidates'[c].deployed_date = candidates[c].deployed_date
             /\ (candidates[c].deployed_date = NoDate
                 /\ candidates'[c].deployed_date # NoDate)
                  => /\ candidates'[c].current_stage = "DEPLOYED"
                     /\ candidates[c].current_stage # "DEPLOYED"
                     /\ candidates'[c].deployed_date = today ]_vars

\* a candidate deployed on day 1 and moved on re-enters DEPLOYED on day 2
C24_Witness ==
    /\ today = 2
    /\ last.op \in {"candidate_move_stage", "bulk_move_stage"}
    /\ last.stage = "DEPLOYED"
    /\ \E c \in last.ids \cap CandIds :
          /\ candidates[c].current_stage = "DEPLOYED"
          /\ candidates[c].deployed_date = 1
          /\ Cardinality(JournalsOf("DEPLOY", c)) = 2

\* ---------------------------------------------------------------------------
\* Invoice lines and the total of their invoice.  BillLine.save and Bill are
\* the same code with bill in the place of invoice.

MaxLines == 2
LineQuantities == {1, 2, 3}
LinePrices == {100 * Scale, 2550 * Tol}

RECURSIVE SumAmounts(_)
\* sum(line.amount for line in self.invoice.lines.all())
SumAmounts(ls) == IF ls = << >> THEN 0 ELSE Head(ls).amount + SumAmounts(Tail(ls))

\* invoice.save(update_fields=['total_amount']) after the recalculation
Recalculated(inv, ls) == [inv EXCEPT !.lines = ls, !.total_amount = SumAmounts(ls)]

\* InvoiceLine.save(): amount = quantity * unit_price, the row is written
\* (k = Len + 1: a new row), then the total of the invoice is recalculated
InvoiceLine_save(i, k, quantity, unit_price) ==
    LET row == [quantity |-> quantity, unit_price |-> unit_price,
                amount |-> quantity * unit_price]
        ls == invoices[i].lines
        written == IF k > Len(ls) THEN Append(ls, row) ELSE [ls EXCEPT ![k] = row]
    IN  /\ k \in 1..(Len(ls) + 1)
        /\ k <= MaxLines
        /\ invoices' = [invoices EXCEPT ![i] = Recalculated(@, written)]
        /\ last' = LastRec("InvoiceLine.save", "none", i, {}, "")
        /\ UNCHANGED <<company, fxRates, chart, jobCurrency, today, candidates, costs,
                       receipts, payments, journals, req>>

\* InvoiceLine.delete(): Model.delete removes the row; the model overrides
\* nothing and registers no signal, so the invoice is not written
InvoiceLine_delete(i, k) ==
    LET ls == invoices[i].lines
    IN  /\ k \in 1..Len(ls)
        /\ invoices' = [invoices EXCEPT ![i].lines =
                           [x \in 1..(Len(ls) - 1) |-> IF x < k THEN ls[x] ELSE ls[x + 1]]]
        /\ last' = LastRec("InvoiceLine.delete", "none", i, {}, "")
        /\ UNCHANGED <<company, fxRates, chart, jobCurrency, today, candidates, costs,
                       receipts, payments, journals, req>>

InitLines ==
    /\ company = NewCompany
    /\ fxRates = {}
    /\ chart = TRUE
    /\ jobCurrency = BaseCurrency
    /\ today = 1
    /\ candidates = NewCandidates
    /\ costs = << >>
    /\ invoices = [i \in 1..2 |->
                     [id |-> i, total_amount |-> 0, tax_amount |-> 0,
                      currency |-> BaseCurrency, cands |-> {}, lines |-> << >>]]
    /\ receipts = << >>
    /\ payments = << >>
    /\ journals = {}
    /\ req = [p \in Procs |-> IdleReq]
    /\ last = LastRec("init", "none", 0, {}, "")

NextLines ==
    \/ \E i \in 1..2, k \in 1..MaxLines, q \in LineQuantities, p \in LinePrices :
          InvoiceLine_save(i, k, q, p)
    \/ \E i \in 1..2, k \in 1..MaxLines : InvoiceLine_delete(i, k)

SpecLines == InitLines /\ [][NextLines]_vars

\* C25: after every creation, change or deletion of a line, the total_amount
\* of the parent equals the sum of the amounts of its current lines, and each
\* line's amount is its quantity times its unit price.
C25_TotalIsSumOfLines ==
    \A i \in 1..Len(invoices) :
       /\ invoices[i].total_amount = SumAmounts(invoices[i].lines)
       /\ \A k \in 1..Len(invoices[i].lines) :
             invoices[i].lines[k].amount
               = invoices[i].lines[k].quantity * invoices[i].lines[k].unit_price

\* ---------------------------------------------------------------------------
\* Invoice numbering under two workers that run invoice_generate.

MaxNumber == 3

InitNumbering ==
    /\ Init
    /\ chart
    /\ jobCurrency = BaseCurrency

\* invoice_generate: the queries of the request read the job order, its
\* company and the deployed candidates
generate_load(p, ids) ==
    /\ req[p].pc = "idle"
    /\ company.invoice_counter <= MaxNumber
    /\ OnlyReq(p, [pc |-> "loaded", kind |-> "generate", ids |-> ids,
                   snap |-> company])
    /\ UNCHANGED <<company, fxRates, chart, jobCurrency, today, candidates, costs,
                   invoices, receipts, payments, journals, last>>

\* invoice_generate: Invoice.save() takes its number from the company object
\* in hand and writes the counter, the invoice row is inserted, the journal is
\* posted, and the transaction commits.  The database of settings.py (SQLite)
\* refuses the writes of a transaction that read a row another connection has
\* written since, and invoice_number is unique: in both cases the request
\* fails and no row changes.
generate_commit(p) ==
    /\ req[p].pc = "loaded" /\ req[p].kind = "generate"
    /\ LET obj == req[p].snap
           stale == company # obj
           duplicate == \E i \in 1..Len(invoices) :
                           invoices[i].invoice_number = obj.invoice_counter
           deployed == {c \in req[p].ids \cap CandIds :
                           candidates[c].current_stage = "DEPLOYED"}
           invoice == [id |-> Len(invoices) + 1,
                       total_amount |-> Cardinality(deployed) * AgreedFee
                                        + Reimbursable(deployed, 1),
                       invoice_number |-> obj.invoice_counter,
                       tax_amount |-> 0,
                       currency |-> jobCurrency,
                       cands |-> deployed]
           out == post_invoice_journal(journals, invoice, 0)
       IN  IF deployed = {}
           THEN /\ last' = LastRec("invoice_generate", "nodeployed", 0, req[p].ids, "")
                /\ UNCHANGED <<company, invoices, journals>>
           ELSE IF stale \/ duplicate \/ out.err # "none"
           THEN /\ last' = LastRec("invoice_generate",
                                   IF stale \/ duplicate THEN "db" ELSE out.err,
                                   0, req[p].ids, "")
                /\ UNCHANGED <<company, invoices, journals>>
           ELSE /\ company' = next_invoice_number(obj)
                /\ invoices' = Append(invoices, invoice)
                /\ journals' = out.journals
                /\ last' = LastRec("invoice_generate", "none", invoice.id,
                                   req[p].ids, "")
    /\ OnlyReq(p, [req[p] EXCEPT !.pc = "done"])
    /\ UNCHANGED <<fxRates, chart, jobCurrency, today, candidates, costs,
                   receipts, payments>>

\* the response is sent; the worker takes the next request
generate_return(p) ==
    /\ req[p].pc = "done"
    /\ OnlyReq(p, IdleReq)
    /\ UNCHANGED <<company, fxRates, chart, jobCurrency, today, candidates, costs,
                   invoices, receipts, payments, journals, last>>

NextNumbering ==
    \/ \E c \in CandIds : candidate_move_stage(c, "DEPLOYED", 0)
    \/ \E p \in Procs, ids \in BulkIds : generate_load(p, ids)
    \/ \E p \in Procs : generate_commit(p)
    \/ \E p \in Procs : generate_return(p)

SpecNumbering == InitNumbering /\ [][NextNumbering]_vars

\* a request that found deployed candidates has just answered
GenerateStep ==
    /\ last'.op = "invoice_generate"
    /\ last'.err # "nodeployed"
    /\ \E p \in Procs : req[p].pc = "loaded" /\ req'[p].pc = "done"

\* C26: invoice numbering is an atomic increment-and-fetch per company: every
\* invoice creation succeeds, also when another one runs concurrently, its
\* number is that of no other invoice, and it raises the company's
\* invoice_counter by exactly one (two creations raise it by exactly two).
C26_AtomicNumbering ==
    [][ GenerateStep
        => /\ last'.err = "none"
           /\ company'.invoice_counter = company.invoice_counter + 1
           /\ Len(invoices') = Len(invoices) + 1
           /\ \A i \in 1..Len(invoices) :
                 invoices[i].invoice_number
                   # invoices'[Len(invoices')].invoice_number ]_vars

\* C27: a bulk_move_stage call that returns reports as updated the number of
\* candidates whose stage it set to the target stage, whatever that stage is:
\* every candidate among the supplied ids that exists.
C27_UpdatedCountsMoves ==
    [][ (last'.op = "bulk_move_stage" /\ last'.err = "none")
        => last'.ref = Cardinality({c \in last'.ids \cap CandIds :
                                      candidates'[c].current_stage = last'.stage}) ]_vars

\* C30: after any sequence of move-stage requests, single or bulk, with
\* arbitrary stage arguments, every candidate's current_stage is one of the
\* eight defined stages.
C30_StageIsDefined ==
    \A c \in CandIds : candidates[c].current_stage \in STAGE_CHOICES

\* ---------------------------------------------------------------------------
\* Costs recorded through both entry points, rates added over the days, and
\* the deployment that clears the accumulated WIP.

WipRates == {FxRow("EUR", "USD", d, UnitRate + 1000 * d) : d \in 1..MaxDay}

InitWip ==
    /\ Init
    /\ chart
    /\ jobCurrency = BaseCurrency

NextWip ==
    \/ Tick
    \/ \E r \in WipRates : AddFxRate(r)
    \/ \E cur \in CURRENCY_CHOICES, a \in CostAmounts :
          candidate_add_cost(1, a, cur, TRUE)
    \/ \E ids \in {{1}, {1, 2}}, cur \in CURRENCY_CHOICES, a \in CostAmounts :
          candidate_bulk_add_cost(ids, a, cur, TRUE, 0)
    \/ \E c \in CandIds : candidate_move_stage(c, "DEPLOYED", 0)
    \/ candidate_bulk_move_stage(CandIds, "DEPLOYED", 0)

SpecWip == InitWip /\ [][NextWip]_vars

RECURSIVE PostedWip(_, _)
\* the WIP debits of the cost journals posted for the costs of candidate c,
\* from the i-th cost on
PostedWip(c, i) ==
    IF i > Len(costs) THEN 0
    ELSE (IF costs[i].candidate = c /\ JournalsOf("COST", i) # {}
          THEN (CHOOSE j \in JournalsOf("COST", i) : TRUE).lines[1].debit
          ELSE 0) + PostedWip(c, i + 1)

\* C28: when a candidate's deployment journal is posted, its WIP credit equals
\* the sum of the WIP debits of the cost journals posted for that candidate's
\* costs, whichever entry point recorded the costs and whatever rates were
\* added between the cost postings and the deployment.
C28_DeploymentClearsPostedWip ==
    [][ \A j \in journals' :
           (j \notin journals /\ j.kind = "DEPLOY")
           => /\ j.lines[2].account = "WIP"
              /\ j.lines[2].credit = PostedWip(j.ref, 1) ]_vars

\* the number of journals that credit Revenue with the agreed fee of candidate
\* c: its deployment journals, and the journals of the invoices that bill it
FeeCredits(c) ==
    Cardinality({j \in JournalsOf("DEPLOY", c) :
                    \E k \in 1..Len(j.lines) :
                       j.lines[k].account = "REVENUE" /\ j.lines[k].credit > 0})
    + Cardinality({i \in 1..Len(invoices) :
                      c \in invoices[i].cands /\ JournalsOf("INVOICE", i) # {}})

\* C29: the placement fee of a candidate is recognised once: over any sequence
\* of deployments and invoice generations, its agreed fee is credited to
\* Revenue (and debited to Accounts Receivable) by at most one journal among
\* its deployment journal and its invoice journals.
C29_FeeRecognisedOnce ==
    \A c \in CandIds : FeeCredits(c) <= 1

====
